---------------------------- MODULE Spec2Model ----------------------------
(***************************************************************************)
(* A model of src/src/wasm/renderer.c: the SDF raymarcher's scene tables,  *)
(* the committed scene, the 4-lane scene evaluator, ray generation and the *)
(* sphere-tracing pass march_rays with its per-lane masks.                 *)
(*                                                                         *)
(* Numbers.  An f32 is modelled as a fixed-point integer, Scale units to   *)
(* 1.0f (so HIT_THRESHOLD and NORMAL_EPS are one unit), plus the single    *)
(* value NaN.  Arithmetic rounds to nearest and propagates NaN, and every  *)
(* ordered comparison with NaN is false, as in IEEE 754.  Infinities are   *)
(* not values of the model: the two places where the code divides by zero  *)
(* (ray generation with width or height 1, normalising a zero gradient)    *)
(* multiply the quotient by zero at once, and the model yields that NaN.   *)
(*                                                                         *)
(* Lanes.  A v128_t is a function on Lanes; the wasm lane-wise operations  *)
(* are the scalar operations applied in each lane.                         *)
(*                                                                         *)
(* Arrays.  The model keeps the first NShapes entries of the shape tables  *)
(* and the first NCells entries of the ray and output buffers; the host    *)
(* actions write only those, and the remaining entries keep the zero of C  *)
(* static storage.                                                         *)
(***************************************************************************)
EXTENDS Integers, Sequences, FiniteSets, TLC

\* ------------------------------------------------------------------------
\* Program constants
\* ------------------------------------------------------------------------
Scale == 1000

MAX_RAYS == 16384
MAX_SHAPES == 64
MAX_STEPS == 64
MAX_GROUPS == 8
MAX_DIST == 100 * Scale
HIT_THRESHOLD == Scale \div 1000
NORMAL_EPS == Scale \div 1000

SHAPE_SPHERE == 0
SHAPE_BOX == 1
SHAPE_CYLINDER == 2

PERF_METRICS_SIZE == 16
PERF_TOTAL_STEPS == 0
PERF_TOTAL_SDF_CALLS == 1
PERF_NORMAL_SDF_CALLS == 2
PERF_COLOR_LOOKUPS == 3
PERF_EARLY_HITS == 4
PERF_MISSES == 5
PERF_AVG_STEPS == 6
PERF_HIT_RATE == 7

LIGHT_DIR_COMPONENT == (577 * Scale) \div 1000
AMBIENT_WEIGHT == Scale \div 10
DIFFUSE_WEIGHT == (9 * Scale) \div 10

\* 0.333333f is below 1/3 and so is its value at the model's resolution
RGB_AVG_DIVISOR == (333333 * Scale) \div 1000000
BG_THRESHOLD == (4 * Scale) \div 100
ASCII_RAMP_MAX_IDX == 9 * Scale
BG_FILL_R == (3 * Scale) \div 100
BG_FILL_G == (5 * Scale) \div 100
BG_FILL_B == (4 * Scale) \div 100
BLOCK_FULL == 9608
BLOCK_UPPER == 9600
BLOCK_LOWER == 9604

\* ------------------------------------------------------------------------
\* Bounds of the model
\* ------------------------------------------------------------------------
\* shape-table entries the host writes
NShapes == 3
\* batches of 4 rays whose buffer cells are kept
NBatches == 2
\* marching passes between two resets of the metrics
MaxPasses == 2

\* cells of out_char, out_fg, out_bg, upscaled_char, upscaled_fg that are kept
NComp == 16

NCells == 4 * NBatches
Lanes == 0 .. 3
ShapeIdx == 0 .. (NShapes - 1)
CellIdx == 0 .. (NCells - 1)
GroupIdx == 0 .. (MAX_GROUPS - 1)
CompIdx == 0 .. (NComp - 1)

\* ------------------------------------------------------------------------
\* f32 arithmetic
\* ------------------------------------------------------------------------
NaN == 2 ^ 30

Abs(x) == IF x < 0 THEN -x ELSE x

\* n / d rounded to the nearest integer, ties away from zero (d # 0)
RDiv(n, d) ==
    LET s == IF (n < 0) = (d < 0) THEN 1 ELSE -1
    IN  s * ((2 * Abs(n) + Abs(d)) \div (2 * Abs(d)))

F32(n) == n * Scale

FAdd(a, b) == IF a = NaN \/ b = NaN THEN NaN ELSE a + b
FSub(a, b) == IF a = NaN \/ b = NaN THEN NaN ELSE a - b
FMul(a, b) == IF a = NaN \/ b = NaN THEN NaN ELSE RDiv(a * b, Scale)
FDiv(a, b) == IF a = NaN \/ b = NaN THEN NaN ELSE RDiv(a * Scale, b)
FLt(a, b) == a # NaN /\ b # NaN /\ a < b
FGt(a, b) == a # NaN /\ b # NaN /\ a > b
FAbs(a) == IF a = NaN THEN NaN ELSE Abs(a)
\* wasm_f32x4_min / wasm_f32x4_max: a NaN operand gives NaN
FMin(a, b) == IF a = NaN \/ b = NaN THEN NaN ELSE IF a < b THEN a ELSE b
FMax(a, b) == IF a = NaN \/ b = NaN THEN NaN ELSE IF a > b THEN a ELSE b
\* wasm_v128_and of a float with an all-ones / all-zeros lane mask
FMask(a, m) == IF m THEN a ELSE 0

RECURSIVE ISqrtIn(_, _, _)
ISqrtIn(n, lo, hi) ==
    IF lo >= hi THEN lo
    ELSE LET mid == (lo + hi + 1) \div 2
         IN  IF mid * mid <= n THEN ISqrtIn(n, mid, hi)
             ELSE ISqrtIn(n, lo, mid - 1)

\* the square root of an integer, rounded to nearest
RoundRoot(n, r) == IF n - r * r > r THEN r + 1 ELSE r

ISqrt(n) == RoundRoot(n, ISqrtIn(n, 0, 46340))

Trunc2(x) == IF x < 0 THEN -((-x) \div 2) ELSE x \div 2

\* wasm_f32x4_sqrt(x*x + y*y + z*z): the squares are formed at the
\* magnitude of the operands, as a float's are (15 significant bits here).
RECURSIVE Len3I(_, _, _)
Len3I(a, b, c) ==
    IF Abs(a) <= 26000 /\ Abs(b) <= 26000 /\ Abs(c) <= 26000
    THEN ISqrt(a * a + b * b + c * c)
    ELSE 2 * Len3I(Trunc2(a), Trunc2(b), Trunc2(c))

Len3(a, b, c) ==
    IF a = NaN \/ b = NaN \/ c = NaN THEN NaN ELSE Len3I(a, b, c)

VAdd(u, v) == << FAdd(u[1], v[1]), FAdd(u[2], v[2]), FAdd(u[3], v[3]) >>
VScale(u, s) == << FMul(u[1], s), FMul(u[2], s), FMul(u[3], s) >>
Zero3 == << 0, 0, 0 >>
Zero4 == << 0, 0, 0, 0 >>

\* ------------------------------------------------------------------------
\* State
\* ------------------------------------------------------------------------
VARIABLES
    \* host-written scene tables
    shape_types, shape_params, shape_positions, shape_colors, shape_groups,
    group_blend_mode,
    \* committed scene
    shape_count, smooth_k, smooth_k_simd, group_count,
    shape_c, shape_p, shape_rgb,
    \* SIMD constants
    simd_constants_initialized, max_dist_simd, light_x, light_y, light_z,
    zero_simd, ambient_simd, diffuse_simd,
    \* rays, camera, background, output, metrics
    ray_o, ray_d, ray_count,
    cam_eye, cam_forward, cam_right, cam_up, cam_half_width, cam_half_height,
    bg_color, out_rgb, perf_metrics,
    \* march_rays: position in the function and its locals
    pc, batch, batch_count, total_steps_all, total_hits, total_misses,
    pos, dir, total_dist, active, accumulated_hit, steps_this_batch, dist,
    \* history of the running batch and of the session
    hit_step, miss_step, passes, prev_out, same_inputs,
    \* history of the running pass: for every output index, the branches of
    \* the output loop that wrote it, in order
    lane_log,
    \* compositor and upscaler outputs; fault collects the kinds of fault
    \* (a trap, an index past a buffer's capacity) the calls so far ran into
    out_char, out_fg, out_bg, upscaled_char, upscaled_fg, fault

tableVars == << shape_types, shape_params, shape_positions, shape_colors,
                shape_groups, group_blend_mode >>
sceneVars == << shape_count, smooth_k, smooth_k_simd, shape_c, shape_p,
                shape_rgb >>
simdVars == << simd_constants_initialized, max_dist_simd, light_x, light_y,
               light_z, zero_simd, ambient_simd, diffuse_simd >>
rayVars == << ray_o, ray_d >>
camVars == << cam_eye, cam_forward, cam_right, cam_up, cam_half_width,
              cam_half_height >>
marchVars == << pc, batch, batch_count, total_steps_all, total_hits,
                total_misses, pos, dir, total_dist, active, accumulated_hit,
                steps_this_batch, dist, hit_step, miss_step, lane_log >>
compVars == << out_char, out_fg, out_bg, upscaled_char, upscaled_fg, fault >>
vars == << tableVars, sceneVars, group_count, simdVars, rayVars, ray_count,
           camVars, bg_color, out_rgb, perf_metrics, marchVars, passes,
           prev_out, same_inputs, compVars >>

\* ------------------------------------------------------------------------
\* SIMD distance primitives (one lane)
\* ------------------------------------------------------------------------
sdf_sphere_simd(p, c, r) ==
    FSub(Len3(FSub(p[1], c[1]), FSub(p[2], c[2]), FSub(p[3], c[3])), r)

\* length(max(d, 0)) + min(max(d.x, max(d.y, d.z)), 0)
BoxDistance(dx, dy, dz) ==
    FAdd(Len3(FMax(dx, 0), FMax(dy, 0), FMax(dz, 0)),
         FMin(FMax(dx, FMax(dy, dz)), 0))

sdf_box_simd(p, c, b) ==
    BoxDistance(FSub(FAbs(FSub(p[1], c[1])), b[1]),
                FSub(FAbs(FSub(p[2], c[2])), b[2]),
                FSub(FAbs(FSub(p[3], c[3])), b[3]))

\* sqrt(max(d_radial,0)^2 + max(d_axial,0)^2) + min(max(d_radial,d_axial),0)
CylinderDistance(d_radial, d_axial) ==
    FAdd(Len3(FMax(d_radial, 0), FMax(d_axial, 0), 0),
         FMin(FMax(d_radial, d_axial), 0))

sdf_cylinder_simd(p, c, r, h) ==
    CylinderDistance(FSub(Len3(FSub(p[2], c[2]), FSub(p[3], c[3]), 0), r),
                     FSub(FAbs(FSub(p[1], c[1])), h))

\* d2 + (d1 - d2) * h - k * h * (1 - h)
SmoothMix(d1, d2, k, h) ==
    FAdd(d2, FSub(FMul(FSub(d1, d2), h), FMul(k, FMul(h, FSub(Scale, h)))))

\* h = clamp(0.5 + 0.5 * (d2 - d1) / k, 0, 1)
sdf_smooth_union_simd(d1, d2, k) ==
    SmoothMix(d1, d2, k,
              FMax(0, FMin(Scale,
                  FAdd(Scale \div 2,
                       FMul(Scale \div 2, FDiv(FSub(d2, d1), k))))))

\* ------------------------------------------------------------------------
\* Table and committed-scene reads (entries past the kept prefix are zero)
\* ------------------------------------------------------------------------
TypeAt(i) == IF i < NShapes THEN shape_types[i] ELSE 0
GroupAt(i) == IF i < NShapes THEN shape_groups[i] ELSE 0
CAt(i) == IF i < NShapes THEN shape_c[i] ELSE Zero3
PAt(i) == IF i < NShapes THEN shape_p[i] ELSE Zero3
RgbAt(i) == IF i < NShapes THEN shape_rgb[i] ELSE Zero3

eval_shape_simd(i, p) ==
    IF TypeAt(i) = SHAPE_SPHERE
    THEN sdf_sphere_simd(p, CAt(i), PAt(i)[1])
    ELSE IF TypeAt(i) = SHAPE_CYLINDER
         THEN sdf_cylinder_simd(p, CAt(i), PAt(i)[1], PAt(i)[2])
         ELSE sdf_box_simd(p, CAt(i), PAt(i))

\* the group a shape is blended into
ShapeGroup(i) == IF GroupAt(i) >= group_count THEN 0 ELSE GroupAt(i)

\* fault: the blend mode of the group is ignored
BlendIntoGroup_hardOnly(gd, gi, g, d) ==
    IF ~gi[g] THEN d ELSE FMin(gd[g], d)

\* one iteration of pass 1 on the running group distances
BlendIntoGroup(gd, gi, g, d) ==
    IF ~gi[g] THEN d
    ELSE IF group_blend_mode[g] = 0 THEN FMin(gd[g], d)
         ELSE sdf_smooth_union_simd(gd[g], d, smooth_k_simd)

RECURSIVE ScenePass1(_, _, _, _)
Pass1Store(i, gd, gi, p, g) ==
    ScenePass1(i + 1,
               [gd EXCEPT ![g] = BlendIntoGroup(gd, gi, g,
                                                eval_shape_simd(i, p))],
               [gi EXCEPT ![g] = TRUE], p)

ScenePass1(i, gd, gi, p) ==
    IF i >= shape_count THEN [dists |-> gd, initialized |-> gi]
    ELSE Pass1Store(i, gd, gi, p, ShapeGroup(i))

RECURSIVE ScenePass2(_, _, _, _)
ScenePass2(g, result, first, groups) ==
    IF g >= group_count THEN result
    ELSE IF ~groups.initialized[g] THEN ScenePass2(g + 1, result, first, groups)
         ELSE IF first THEN ScenePass2(g + 1, groups.dists[g], FALSE, groups)
              ELSE ScenePass2(g + 1,
                       sdf_smooth_union_simd(result, groups.dists[g],
                                             smooth_k_simd),
                       FALSE, groups)

scene_sdf_simd(p) ==
    IF shape_count = 0 THEN max_dist_simd
    ELSE ScenePass2(0, max_dist_simd, TRUE,
                    ScenePass1(0, [g \in GroupIdx |-> 0],
                               [g \in GroupIdx |-> FALSE], p))

\* ------------------------------------------------------------------------
\* Normal estimation, shading and colour lookup (after the march loop)
\* ------------------------------------------------------------------------
\* nx = d0 + d1 - d2 - d3, ny = d0 - d1 + d2 - d3, nz = -d0 + d1 + d2 - d3
TetraGradient(d0, d1, d2, d3) ==
    << FSub(FAdd(d0, d1), FAdd(d2, d3)),
       FSub(FAdd(d0, d2), FAdd(d1, d3)),
       FSub(FAdd(d1, d2), FAdd(d0, d3)) >>

\* n * (1 / sqrt(len_sq)): a zero gradient gives 0 * Inf = NaN
NormComp(x, len) ==
    IF x = NaN \/ len = NaN \/ len = 0 THEN NaN ELSE RDiv(x * Scale, len)

ScaleTo(n, len) ==
    << NormComp(n[1], len), NormComp(n[2], len), NormComp(n[3], len) >>

Normalize(n) == ScaleTo(n, Len3(n[1], n[2], n[3]))

\* max(N.L, 0)
NdotL(n) ==
    FMax(FAdd(FAdd(FMul(n[1], light_x), FMul(n[2], light_y)),
              FMul(n[3], light_z)), zero_simd)

\* fault: a metric leaks into the brightness
Lambert_plusMetric(ndotl) ==
    FAdd(FAdd(ambient_simd, FMul(ndotl, diffuse_simd)),
         perf_metrics[PERF_TOTAL_SDF_CALLS])

\* ambient + diffuse
Lambert(ndotl) == FAdd(ambient_simd, FMul(ndotl, diffuse_simd))

\* tetrahedron normal, N.L and ambient + diffuse of one lane
Brightness(p) ==
    Lambert(NdotL(Normalize(TetraGradient(
        scene_sdf_simd(VAdd(p, << NORMAL_EPS, NORMAL_EPS, -NORMAL_EPS >>)),
        scene_sdf_simd(VAdd(p, << NORMAL_EPS, -NORMAL_EPS, NORMAL_EPS >>)),
        scene_sdf_simd(VAdd(p, << -NORMAL_EPS, NORMAL_EPS, NORMAL_EPS >>)),
        scene_sdf_simd(VAdd(p, << -NORMAL_EPS, -NORMAL_EPS, -NORMAL_EPS >>))))))

\* get_hit_colors_simd: the loop over the shape table from shape i on.
\* md, col, done are per lane; n counts the iterations (PERF_COLOR_LOOKUPS).
RECURSIVE HitColorsFrom(_, _, _, _, _, _, _)
\* all_done = done | ~valid; stop when it is true in every lane
HitColorsNext(i, p, valid, md, col, done, n) ==
    IF \A l \in Lanes : done[l] \/ ~valid[l]
    THEN [colors |-> col, lookups |-> n]
    ELSE HitColorsFrom(i + 1, p, valid, md, col, done, n)

\* closer = d < min_dist; update = closer & valid & ~done
HitColorsUpdate(i, p, valid, md, col, done, n, d, upd) ==
    HitColorsNext(i, p, valid,
        [l \in Lanes |-> IF upd[l] THEN d[l] ELSE md[l]],
        [l \in Lanes |-> IF upd[l] THEN RgbAt(i) ELSE col[l]],
        [l \in Lanes |-> done[l] \/ (upd[l] /\ FLt(d[l], HIT_THRESHOLD))],
        n + 1)

\* fault: the update is not restricted to the lanes that are hits
HitColorsEval_unmasked(i, p, valid, md, col, done, n, d) ==
    HitColorsUpdate(i, p, valid, md, col, done, n, d,
        [l \in Lanes |-> FLt(d[l], md[l]) /\ ~done[l]])

HitColorsEval(i, p, valid, md, col, done, n, d) ==
    HitColorsUpdate(i, p, valid, md, col, done, n, d,
        [l \in Lanes |-> FLt(d[l], md[l]) /\ valid[l] /\ ~done[l]])

HitColorsFrom(i, p, valid, md, col, done, n) ==
    IF i >= shape_count THEN [colors |-> col, lookups |-> n]
    ELSE HitColorsEval(i, p, valid, md, col, done, n,
                       [l \in Lanes |-> eval_shape_simd(i, p[l])])

get_hit_colors_simd(p, hit_mask) ==
    HitColorsFrom(0, p, hit_mask, [l \in Lanes |-> MAX_DIST],
                  [l \in Lanes |-> Zero3], [l \in Lanes |-> FALSE], 0)

\* ------------------------------------------------------------------------
\* Initial state: C static storage
\* ------------------------------------------------------------------------
IdleLocals ==
    /\ pc = "idle"
    /\ batch = 0
    /\ batch_count = 0
    /\ total_steps_all = 0
    /\ total_hits = 0
    /\ total_misses = 0
    /\ pos = [l \in Lanes |-> Zero3]
    /\ dir = [l \in Lanes |-> Zero3]
    /\ total_dist = [l \in Lanes |-> 0]
    /\ active = [l \in Lanes |-> FALSE]
    /\ accumulated_hit = [l \in Lanes |-> FALSE]
    /\ steps_this_batch = 0
    /\ dist = [l \in Lanes |-> 0]
    /\ hit_step = [l \in Lanes |-> 0]
    /\ miss_step = [l \in Lanes |-> 0]
    /\ lane_log = [i \in CellIdx |-> << >>]

Init ==
    /\ shape_types = [i \in ShapeIdx |-> 0]
    /\ shape_params = [i \in ShapeIdx |-> Zero3]
    /\ shape_positions = [i \in ShapeIdx |-> Zero3]
    /\ shape_colors = [i \in ShapeIdx |-> Zero3]
    /\ shape_groups = [i \in ShapeIdx |-> 0]
    /\ group_blend_mode = [g \in GroupIdx |-> 0]
    /\ shape_count = 0
    /\ smooth_k = Scale \div 2
    /\ smooth_k_simd = 0
    /\ group_count = 0
    /\ shape_c = [i \in ShapeIdx |-> Zero3]
    /\ shape_p = [i \in ShapeIdx |-> Zero3]
    /\ shape_rgb = [i \in ShapeIdx |-> Zero3]
    /\ simd_constants_initialized = 0
    /\ max_dist_simd = 0
    /\ light_x = 0
    /\ light_y = 0
    /\ light_z = 0
    /\ zero_simd = 0
    /\ ambient_simd = 0
    /\ diffuse_simd = 0
    /\ ray_o = [i \in CellIdx |-> Zero3]
    /\ ray_d = [i \in CellIdx |-> Zero3]
    /\ ray_count = 0
    /\ cam_eye = Zero3
    /\ cam_forward = Zero3
    /\ cam_right = Zero3
    /\ cam_up = Zero3
    /\ cam_half_width = 0
    /\ cam_half_height = 0
    /\ bg_color = Zero3
    /\ out_rgb = [i \in CellIdx |-> Zero3]
    /\ perf_metrics = [i \in 0 .. (PERF_METRICS_SIZE - 1) |-> 0]
    /\ IdleLocals
    /\ passes = 0
    /\ prev_out = << >>
    /\ same_inputs = FALSE
    /\ out_char = [i \in CompIdx |-> 0]
    /\ out_fg = [i \in CompIdx |-> Zero4]
    /\ out_bg = [i \in CompIdx |-> Zero4]
    /\ upscaled_char = [i \in CompIdx |-> 0]
    /\ upscaled_fg = [i \in CompIdx |-> Zero4]
    /\ fault = {}

\* an input of the marcher changed: the last pass is no longer comparable
InputsChanged == prev_out' = << >> /\ same_inputs' = FALSE

\* ------------------------------------------------------------------------
\* Inputs of the model: what the host writes and the arguments it passes
\* ------------------------------------------------------------------------
V3(x, y, z) == << x * (Scale \div 10), y * (Scale \div 10), z * (Scale \div 10) >>

Shape(t, c, par, col, g) ==
    [type |-> t, pos |-> c, par |-> par, col |-> col, grp |-> g]

ZeroShape == Shape(0, Zero3, Zero3, Zero3, 0)

\* the shape table the host writes: a sphere 150 units down the z axis with
\* an out-of-range group id, then a box and a cylinder five units in front
\* of the origin, both in group 1
SceneShape(i) ==
    CASE i = 0 -> Shape(SHAPE_SPHERE, V3(0, 0, 1500), V3(10, 0, 0),
                        V3(10, 10, 0), 9)
      [] i = 1 -> Shape(SHAPE_BOX, V3(30, 0, 50), V3(10, 10, 10),
                        V3(0, 10, 0), 1)
      [] i = 2 -> Shape(SHAPE_CYLINDER, V3(30, 15, 50), V3(5, 20, 0),
                        V3(0, 0, 10), 1)
      [] OTHER -> ZeroShape

\* group 0 blends smoothly, every other group takes the hard union
SceneBlend == [g \in GroupIdx |-> IF g = 0 THEN 1 ELSE 0]

\* the rays the host writes itself into the ray buffers
Ray(o, d) == [o |-> o, d |-> d]

HostRay(i) ==
    CASE i = 0 -> Ray(V3(0, 0, 0), V3(0, 0, 10))
      [] i = 1 -> Ray(V3(0, 0, 0), V3(0, 0, -10))
      [] i = 2 -> Ray(V3(0, 0, 1500), V3(0, 10, 0))
      [] i = 3 -> Ray(V3(30, 0, 0), V3(0, 0, 10))
      [] i = 4 -> Ray(V3(30, 12, 0), V3(0, 0, 10))
      [] OTHER -> Ray(Zero3, Zero3)

HostBg == << 2 * (Scale \div 100), 2 * (Scale \div 100), 3 * (Scale \div 100) >>

\* the arguments the host passes
ShapeCountInputs == {0, 1, NShapes}
KInputs == {Scale \div 2}
GroupCountInputs == {1, 2}
RayCountInputs == {NCells - 2}
DimInputs == {<< 1, 1 >>}

\* the host configures the renderer, then runs its marching passes
Configuring == pc = "idle" /\ passes = 0

\* ------------------------------------------------------------------------
\* The host writes through the buffer pointers (get_*_ptr)
\* ------------------------------------------------------------------------
HostWriteScene ==
    /\ Configuring
    /\ shape_types' = [i \in ShapeIdx |-> SceneShape(i).type]
    /\ shape_params' = [i \in ShapeIdx |-> SceneShape(i).par]
    /\ shape_positions' = [i \in ShapeIdx |-> SceneShape(i).pos]
    /\ shape_colors' = [i \in ShapeIdx |-> SceneShape(i).col]
    /\ shape_groups' = [i \in ShapeIdx |-> SceneShape(i).grp]
    /\ group_blend_mode' = SceneBlend
    /\ InputsChanged
    /\ UNCHANGED << sceneVars, group_count, simdVars, rayVars, ray_count,
                    camVars, bg_color, out_rgb, perf_metrics, marchVars,
                    passes >>
    /\ UNCHANGED compVars

HostWriteRays ==
    /\ Configuring
    /\ ray_o' = [i \in CellIdx |-> HostRay(i).o]
    /\ ray_d' = [i \in CellIdx |-> HostRay(i).d]
    /\ InputsChanged
    /\ UNCHANGED << tableVars, sceneVars, group_count, simdVars, ray_count,
                    camVars, bg_color, out_rgb, perf_metrics, marchVars,
                    passes >>
    /\ UNCHANGED compVars

HostWriteBg ==
    /\ Configuring
    /\ bg_color' = HostBg
    /\ InputsChanged
    /\ UNCHANGED << tableVars, sceneVars, group_count, simdVars, rayVars,
                    ray_count, camVars, out_rgb, perf_metrics, marchVars,
                    passes >>
    /\ UNCHANGED compVars

\* ------------------------------------------------------------------------
\* API functions
\* ------------------------------------------------------------------------
reset_perf_metrics ==
    /\ pc = "idle"
    /\ perf_metrics' = [i \in 0 .. (PERF_METRICS_SIZE - 1) |-> 0]
    /\ UNCHANGED << tableVars, sceneVars, group_count, simdVars, rayVars,
                    ray_count, camVars, bg_color, out_rgb, marchVars,
                    passes, prev_out, same_inputs >>
    /\ UNCHANGED compVars

\* the seven assignments of init_simd_constants
SimdConstantsSet ==
    /\ max_dist_simd' = MAX_DIST
    /\ light_x' = LIGHT_DIR_COMPONENT
    /\ light_y' = LIGHT_DIR_COMPONENT
    /\ light_z' = -LIGHT_DIR_COMPONENT
    /\ zero_simd' = 0
    /\ ambient_simd' = AMBIENT_WEIGHT
    /\ diffuse_simd' = DIFFUSE_WEIGHT

init_simd_constants ==
    /\ Configuring
    /\ SimdConstantsSet
    /\ InputsChanged
    /\ UNCHANGED << simd_constants_initialized, tableVars, sceneVars,
                    group_count, rayVars, ray_count, camVars, bg_color,
                    out_rgb, perf_metrics, marchVars, passes >>
    /\ UNCHANGED compVars

\* count < cap ? count : cap
ClampCount(count, cap) == IF count < cap THEN count ELSE cap

set_ray_count(count) ==
    /\ Configuring
    /\ ray_count' = ClampCount(count, MAX_RAYS)
    /\ InputsChanged
    /\ UNCHANGED << tableVars, sceneVars, group_count, simdVars, rayVars,
                    camVars, bg_color, out_rgb, perf_metrics, marchVars,
                    passes >>
    /\ UNCHANGED compVars

set_groups(count) ==
    /\ Configuring
    /\ group_count' = ClampCount(count, MAX_GROUPS)
    /\ InputsChanged
    /\ UNCHANGED << tableVars, sceneVars, simdVars, rayVars, ray_count,
                    camVars, bg_color, out_rgb, perf_metrics, marchVars,
                    passes >>
    /\ UNCHANGED compVars

\* the splatted per-shape data set_scene precomputes for shapes below n
Commit(old, n, new) ==
    [i \in ShapeIdx |-> IF i < n THEN new[i] ELSE old[i]]

set_scene(count, k) ==
    /\ Configuring
    /\ IF simd_constants_initialized = 0
       THEN SimdConstantsSet /\ simd_constants_initialized' = 1
       ELSE UNCHANGED simdVars
    /\ shape_count' = ClampCount(count, MAX_SHAPES)
    /\ smooth_k' = k
    /\ smooth_k_simd' = k
    /\ shape_c' = Commit(shape_c, shape_count', shape_positions)
    /\ shape_p' = Commit(shape_p, shape_count', shape_params)
    /\ shape_rgb' = Commit(shape_rgb, shape_count', shape_colors)
    /\ InputsChanged
    /\ UNCHANGED << tableVars, group_count, rayVars, ray_count, camVars,
                    bg_color, out_rgb, perf_metrics, marchVars, passes >>
    /\ UNCHANGED compVars

\* the camera the host passes to set_camera: the eye at the centre of the
\* far sphere, looking along +z
CamInput ==
    [eye |-> V3(0, 0, 1500), forward |-> V3(0, 0, 10), right |-> V3(10, 0, 0),
     up |-> V3(0, 10, 0), half_width |-> Scale \div 2,
     half_height |-> Scale \div 2]

set_camera(c) ==
    /\ Configuring
    /\ cam_eye' = c.eye
    /\ cam_forward' = c.forward
    /\ cam_right' = c.right
    /\ cam_up' = c.up
    /\ cam_half_width' = c.half_width
    /\ cam_half_height' = c.half_height
    /\ InputsChanged
    /\ UNCHANGED << tableVars, sceneVars, group_count, simdVars, rayVars,
                    ray_count, bg_color, out_rgb, perf_metrics, marchVars,
                    passes >>
    /\ UNCHANGED compVars

\* u32 multiplication: the product modulo 2^32 as its two 16-bit halves
\* (a, b < 2^31; every intermediate stays below 2^31)
MulU32(a, b) ==
    LET ah == a \div 65536
        al == a % 65536
        bh == b \div 65536
        bl == b % 65536
        t1 == (al \div 256) * bl
        t0 == (al % 256) * bl
        losum == (t1 % 256) * 256 + t0
        lo == losum % 65536
        hi == (t1 \div 256) + (losum \div 65536)
              + ((ah * bl) % 65536) + ((al * bh) % 65536)
    IN  [hi |-> hi % 65536, lo |-> lo]

\* u32 count = width * height; if (count > MAX_RAYS) count = MAX_RAYS;
RayCountFor(width, height) ==
    LET c == MulU32(width, height)
    IN  IF c.hi > 0 \/ c.lo > MAX_RAYS THEN MAX_RAYS ELSE c.lo

\* 2.0f * (f32)n * (1.0f / (f32)(size - 1)): with size = 1 the reciprocal
\* is +Inf and n is 0, so the product is NaN
Frac2(n, size) ==
    IF size = 1 THEN NaN ELSE RDiv(2 * n * Scale, size - 1)

\* sqrtf_approx applied to dx*dx + dy*dy + dz*dz
sqrtf_approx3(d) == Len3(d[1], d[2], d[3])

\* the direction generate_rays stores for pixel (row, col)
RayDirection(row, col, width, height) ==
    LET v == FSub(Scale, Frac2(row, height))
        u == FSub(Frac2(col, width), Scale)
        su == FMul(u, cam_half_width)
        sv == FMul(v, cam_half_height)
        d == VAdd(VAdd(cam_forward, VScale(cam_right, su)),
                  VScale(cam_up, sv))
        len == sqrtf_approx3(d)
    IN  IF FGt(len, 0)
        THEN << RDiv(d[1] * Scale, len), RDiv(d[2] * Scale, len),
                RDiv(d[3] * Scale, len) >>
        ELSE d

\* cell idx is written by the pass iff it is pixel (idx / width, idx % width)
\* of a row below height (the arguments enumerated keep row * width below
\* 2^32, so only the total count can wrap)
RayWritten(idx, width, height) ==
    width > 0 /\ idx < MAX_RAYS /\ (idx \div width) < height

generate_rays(width, height) ==
    /\ Configuring
    /\ ray_o' = [i \in CellIdx |->
                    IF RayWritten(i, width, height) THEN cam_eye
                    ELSE ray_o[i]]
    /\ ray_d' = [i \in CellIdx |->
                    IF RayWritten(i, width, height)
                    THEN RayDirection(i \div width, i % width, width, height)
                    ELSE ray_d[i]]
    /\ ray_count' = RayCountFor(width, height)
    /\ InputsChanged
    /\ UNCHANGED << tableVars, sceneVars, group_count, simdVars, camVars,
                    bg_color, out_rgb, perf_metrics, marchVars, passes >>
    /\ UNCHANGED compVars

\* ------------------------------------------------------------------------
\* march_rays
\* ------------------------------------------------------------------------
\* u32 batch_count = (ray_count + 3) / 4, the three totals zeroed
MarchBegin ==
    /\ pc = "idle"
    /\ passes < MaxPasses
    /\ ray_count <= NCells
    /\ pc' = "batch"
    /\ batch' = 0
    /\ batch_count' = (ray_count + 3) \div 4
    /\ total_steps_all' = 0
    /\ total_hits' = 0
    /\ total_misses' = 0
    /\ passes' = passes + 1
    /\ UNCHANGED << tableVars, sceneVars, group_count, simdVars, rayVars,
                    ray_count, camVars, bg_color, out_rgb, perf_metrics,
                    pos, dir, total_dist, active, accumulated_hit,
                    steps_this_batch, dist, hit_step, miss_step, lane_log,
                    prev_out, same_inputs >>
    /\ UNCHANGED compVars

\* the head of the batch loop: load four rays and reset the lane state
LoadBatch ==
    /\ pc = "batch"
    /\ batch < batch_count
    /\ pos' = [l \in Lanes |-> ray_o[batch * 4 + l]]
    /\ dir' = [l \in Lanes |-> ray_d[batch * 4 + l]]
    /\ total_dist' = [l \in Lanes |-> 0]
    /\ active' = [l \in Lanes |-> TRUE]
    /\ accumulated_hit' = [l \in Lanes |-> FALSE]
    /\ steps_this_batch' = 0
    /\ dist' = [l \in Lanes |-> 0]
    /\ hit_step' = [l \in Lanes |-> 0]
    /\ miss_step' = [l \in Lanes |-> 0]
    /\ pc' = "step"
    /\ UNCHANGED << tableVars, sceneVars, group_count, simdVars, rayVars,
                    ray_count, camVars, bg_color, out_rgb, perf_metrics,
                    batch, batch_count, total_steps_all, total_hits,
                    total_misses, lane_log, passes, prev_out, same_inputs >>
    /\ UNCHANGED compVars

HitTest(d) == FLt(d, HIT_THRESHOLD)
MissTest(t) == FGt(t, MAX_DIST)

\* fault: the running hit mask is never extended
AccumulateHit_dropped(acc, hit) == acc

\* accumulated_hit = wasm_v128_or(accumulated_hit, hit)
AccumulateHit(acc, hit) == acc \/ hit

\* fault: the miss mask is left out of the andnot
NextActive_hitOnly(act, hit, miss) == act /\ ~hit

\* active = wasm_v128_andnot(active, wasm_v128_or(hit, miss))
NextActive(act, hit, miss) == act /\ ~(hit \/ miss)

\* fault: the step is not masked by the active lanes
StepDist_unmasked(d, act) == d

\* step_dist = wasm_v128_and(dist, active)
StepDist(d, act) == FMask(d, act)

\* p + dir * step_dist and total_dist + step_dist
Advance(p, dr, sd) == VAdd(p, VScale(dr, sd))

\* fault: the loop has no break
LoopExits_noBreak(act, steps) == steps >= MAX_STEPS

\* the loop ends by break, or by its condition step < MAX_STEPS
LoopExits(act, steps) == (\A l \in Lanes : ~act[l]) \/ steps >= MAX_STEPS

\* one iteration of the step loop
MarchStep ==
    /\ pc = "step"
    /\ \E d \in {[l \in Lanes |-> scene_sdf_simd(pos[l])]} :
       \E act \in {[l \in Lanes |->
                      NextActive(active[l], HitTest(d[l]),
                                 MissTest(total_dist[l]))]} :
          /\ dist' = d
          /\ steps_this_batch' = steps_this_batch + 1
          /\ accumulated_hit' =
                [l \in Lanes |->
                    AccumulateHit(accumulated_hit[l], HitTest(d[l]))]
          /\ active' = act
          /\ pos' = IF \A l \in Lanes : ~act[l] THEN pos
                    ELSE [l \in Lanes |->
                            Advance(pos[l], dir[l], StepDist(d[l], act[l]))]
          /\ total_dist' = IF \A l \in Lanes : ~act[l] THEN total_dist
                           ELSE [l \in Lanes |->
                                   FAdd(total_dist[l],
                                        StepDist(d[l], act[l]))]
          /\ hit_step' = [l \in Lanes |->
                            IF hit_step[l] = 0 /\ HitTest(d[l])
                            THEN steps_this_batch + 1 ELSE hit_step[l]]
          /\ miss_step' = [l \in Lanes |->
                             IF miss_step[l] = 0 /\ MissTest(total_dist[l])
                             THEN steps_this_batch + 1 ELSE miss_step[l]]
          /\ pc' = IF LoopExits(act, steps_this_batch + 1)
                   THEN "shade" ELSE "step"
    /\ UNCHANGED << tableVars, sceneVars, group_count, simdVars, rayVars,
                    ray_count, camVars, bg_color, out_rgb, perf_metrics,
                    batch, batch_count, total_steps_all, total_hits,
                    total_misses, dir, lane_log, passes, prev_out,
                    same_inputs >>
    /\ UNCHANGED compVars

\* fault: the normal and colour work is done for every batch
AnyHit_always(acc) == TRUE

\* i32 any_hit = hit_arr[0] | hit_arr[1] | hit_arr[2] | hit_arr[3]
AnyHit(acc) == \E l \in Lanes : acc[l]

\* out[idx] = bright_arr[i] * c_arr[i]
ShadeColor(bright, col) ==
    << FMul(bright, col[1]), FMul(bright, col[2]), FMul(bright, col[3]) >>

\* the colour the output loop stores for lane l of the batch
LaneColor(l, hit, bright, colors) ==
    IF hit[l] THEN ShadeColor(bright[l], colors[l]) ELSE bg_color

\* fault: the output loop runs over all four lanes of every batch
LaneInRange_always(b, l) == TRUE

\* lanes of the batch the output loop reaches (idx < ray_count)
LaneInRange(b, l) == b * 4 + l < ray_count

\* lanes of the batch the output loop counts as hits (want) or misses
CountLanes(b, hit, want) ==
    Cardinality({l \in Lanes : LaneInRange(b, l) /\ hit[l] = want})

\* bright_arr: zero unless some lane of the batch hit
BrightArr ==
    [l \in Lanes |->
        IF AnyHit(accumulated_hit) THEN Brightness(pos[l]) ELSE 0]

\* cr_arr, cg_arr, cb_arr and the number of shape-table iterations
HitColors ==
    IF AnyHit(accumulated_hit) THEN get_hit_colors_simd(pos, accumulated_hit)
    ELSE [colors |-> [l \in Lanes |-> Zero3], lookups |-> 0]

\* the branch of the output loop lane l takes (hit_arr[i] or else), with
\* the lane's active bit when the step loop ended
LaneBranch(l) == [hit |-> accumulated_hit[l], marching |-> active[l]]

\* after the step loop: metrics, normals, colours and the output loop
ShadeBatch ==
    /\ pc = "shade"
    /\ \E bright \in {BrightArr}, hc \in {HitColors} :
          /\ perf_metrics' =
                [perf_metrics EXCEPT
                   ![PERF_TOTAL_SDF_CALLS] = FAdd(@, F32(steps_this_batch)),
                   ![PERF_NORMAL_SDF_CALLS] =
                       IF AnyHit(accumulated_hit) THEN FAdd(@, F32(4)) ELSE @,
                   ![PERF_COLOR_LOOKUPS] = FAdd(@, F32(hc.lookups))]
          /\ out_rgb' = [i \in CellIdx |->
                           IF i \div 4 = batch /\ LaneInRange(batch, i % 4)
                           THEN LaneColor(i % 4, accumulated_hit, bright,
                                          hc.colors)
                           ELSE out_rgb[i]]
    /\ lane_log' = [i \in CellIdx |->
                      IF i \div 4 = batch /\ LaneInRange(batch, i % 4)
                      THEN Append(lane_log[i], LaneBranch(i % 4))
                      ELSE lane_log[i]]
    /\ total_steps_all' = total_steps_all + steps_this_batch
    /\ total_hits' =
          total_hits + CountLanes(batch, accumulated_hit, TRUE)
    /\ total_misses' =
          total_misses + CountLanes(batch, accumulated_hit, FALSE)
    /\ batch' = batch + 1
    /\ pc' = "batch"
    /\ UNCHANGED << tableVars, sceneVars, group_count, simdVars, rayVars,
                    ray_count, camVars, bg_color, batch_count, pos, dir,
                    total_dist, active, accumulated_hit, steps_this_batch,
                    dist, hit_step, miss_step, passes, prev_out,
                    same_inputs >>
    /\ UNCHANGED compVars

\* the part of the output buffer the pass wrote
OutPrefix == [i \in 0 .. (ray_count - 1) |-> out_rgb[i]]

\* "Finalize metrics" and return
FinalizeMetrics ==
    /\ pc = "batch"
    /\ batch >= batch_count
    /\ LET active_batches == IF batch_count > 0 THEN batch_count ELSE 1
       IN  perf_metrics' =
             [perf_metrics EXCEPT
                ![PERF_TOTAL_STEPS] = F32(total_steps_all),
                ![PERF_EARLY_HITS] = F32(total_hits),
                ![PERF_MISSES] = F32(total_misses),
                ![PERF_AVG_STEPS] = FDiv(F32(total_steps_all),
                                         F32(active_batches)),
                ![PERF_HIT_RATE] =
                    IF ray_count > 0
                    THEN FDiv(F32(100 * total_hits), F32(ray_count))
                    ELSE 0]
    /\ prev_out' = OutPrefix
    /\ same_inputs' = TRUE
    /\ pc' = "idle"
    /\ batch' = 0
    /\ batch_count' = 0
    /\ total_steps_all' = 0
    /\ total_hits' = 0
    /\ total_misses' = 0
    /\ pos' = [l \in Lanes |-> Zero3]
    /\ dir' = [l \in Lanes |-> Zero3]
    /\ total_dist' = [l \in Lanes |-> 0]
    /\ active' = [l \in Lanes |-> FALSE]
    /\ accumulated_hit' = [l \in Lanes |-> FALSE]
    /\ steps_this_batch' = 0
    /\ dist' = [l \in Lanes |-> 0]
    /\ hit_step' = [l \in Lanes |-> 0]
    /\ miss_step' = [l \in Lanes |-> 0]
    /\ lane_log' = [i \in CellIdx |-> << >>]
    /\ UNCHANGED << tableVars, sceneVars, group_count, simdVars, rayVars,
                    ray_count, camVars, bg_color, out_rgb, passes >>
    /\ UNCHANGED compVars

\* ------------------------------------------------------------------------
\* The program: the host calls the exports in any order; march_rays runs
\* to completion once entered
\* ------------------------------------------------------------------------
Next ==
    \/ HostWriteScene
    \/ HostWriteRays
    \/ HostWriteBg
    \/ reset_perf_metrics
    \/ init_simd_constants
    \/ \E c \in RayCountInputs : set_ray_count(c)
    \/ \E c \in GroupCountInputs : set_groups(c)
    \/ \E c \in ShapeCountInputs, k \in KInputs : set_scene(c, k)
    \/ set_camera(CamInput)
    \/ \E d \in DimInputs : generate_rays(d[1], d[2])
    \/ MarchBegin
    \/ LoadBatch
    \/ MarchStep
    \/ ShadeBatch
    \/ FinalizeMetrics

Spec == Init /\ [][Next]_vars

\* ------------------------------------------------------------------------
\* The count setters called with arguments around and far above the
\* capacities (no marching)
\* ------------------------------------------------------------------------
CapCounts(cap) == {0, cap - 1, cap, cap + 1, 2147483647}
CapDims == {<< 0, 0 >>, << 1, 1 >>, << 127, 129 >>, << 128, 128 >>,
            << 129, 128 >>, << 65536, 65536 >>}

CapNext ==
    \/ HostWriteScene
    \/ set_camera(CamInput)
    \/ \E c \in CapCounts(MAX_RAYS) : set_ray_count(c)
    \/ \E c \in CapCounts(MAX_GROUPS) : set_groups(c)
    \/ \E c \in CapCounts(MAX_SHAPES), k \in KInputs : set_scene(c, k)
    \/ \E d \in CapDims : generate_rays(d[1], d[2])

CapSpec == Init /\ [][CapNext]_vars

\* ------------------------------------------------------------------------
\* Compositing: RGB floats to a character and RGBA colours per cell
\* ------------------------------------------------------------------------
\* " .:-=+*#%@" as code points
ascii_ramp == << 32, 46, 58, 45, 61, 43, 42, 35, 37, 64 >>

\* {-0.075f, 0.0f, 0.0375f, -0.0375f} at the model's resolution
bayer2x2 == << RDiv(-75 * Scale, 1000), 0, RDiv(375 * Scale, 10000),
               RDiv(-375 * Scale, 10000) >>

Rgba(r, g, b) == << r, g, b, Scale >>

\* out_r[i], out_g[i], out_b[i]: the cells past the kept ones are inside the
\* buffers up to MAX_RAYS and hold the zero no model action overwrites; an
\* index from MAX_RAYS on is outside the three buffers
PixelAt(i) == IF i < NCells THEN out_rgb[i] ELSE Zero3

\* (r + g + b) * RGB_AVG_DIVISOR
MeanBrightness(px) == FMul(FAdd(FAdd(px[1], px[2]), px[3]), RGB_AVG_DIVISOR)

\* the brightness without the dither
DitheredBrightness_noDither(row, col, px) ==
    LET b == MeanBrightness(px)
    IN  IF FLt(b, 0) THEN 0 ELSE IF FGt(b, Scale) THEN Scale ELSE b

\* brightness += bayer2x2[row_bit + (col & 1)], then the two clamps
DitheredBrightness(row, col, px) ==
    LET b == FAdd(MeanBrightness(px), bayer2x2[(row % 2) * 2 + (col % 2) + 1])
    IN  IF FLt(b, 0) THEN 0 ELSE IF FGt(b, Scale) THEN Scale ELSE b

\* a threshold test that also takes a channel equal to the threshold
HasColor_atLeast(px) ==
    \E c \in 1 .. 3 : px[c] # NaN /\ px[c] >= BG_THRESHOLD

\* r > BG_THRESHOLD || g > BG_THRESHOLD || b > BG_THRESHOLD
HasColor(px) ==
    FGt(px[1], BG_THRESHOLD) \/ FGt(px[2], BG_THRESHOLD)
        \/ FGt(px[3], BG_THRESHOLD)

\* (i32)(brightness * ASCII_RAMP_MAX_IDX) and its two clamps; the brightness
\* is in [0, 1] or NaN, and the conversion of a NaN is undefined: it traps,
\* or it saturates to 0
CharIdx(brightness) ==
    LET t == IF brightness = NaN THEN 0
             ELSE (brightness * (ASCII_RAMP_MAX_IDX \div Scale)) \div Scale
    IN  IF t < 0 THEN 0 ELSE IF t > 9 THEN 9 ELSE t

\* the character and foreground composite stores for the pixel px at
\* (row, col)
CompositeCell(row, col, px) ==
    IF HasColor(px)
    THEN [char |-> ascii_ramp[CharIdx(DitheredBrightness(row, col, px)) + 1],
          fg |-> Rgba(px[1], px[2], px[3])]
    ELSE [char |-> 64, fg |-> Rgba(BG_FILL_R, BG_FILL_G, BG_FILL_B)]

\* the loops of composite reach cell i (i = row * width + col, i < MAX_RAYS)
CompositeVisits(width, height, i) == width > 0 /\ i \div width < height

\* the cell at which (i32)NaN is evaluated
ConvertsNaN(width, height, i) ==
    /\ CompositeVisits(width, height, i)
    /\ HasColor(PixelAt(i))
    /\ DitheredBrightness(i \div width, i % width, PixelAt(i)) = NaN

\* the first cell, in loop order, that converts a NaN (NComp if none)
FirstNaNCell(width, height) ==
    IF \E i \in CompIdx : ConvertsNaN(width, height, i)
    THEN CHOOSE i \in CompIdx :
            /\ ConvertsNaN(width, height, i)
            /\ \A j \in CompIdx : ConvertsNaN(width, height, j) => i <= j
    ELSE NComp

\* what the target does with (i32)NaN
FloatToInt == {"trap", "saturate"}

CompositeWrites(width, height, stop, i) ==
    CompositeVisits(width, height, i) /\ i < stop

composite(width, height) ==
    /\ pc = "idle"
    /\ \E conv \in FloatToInt :
        \E stop \in {IF conv = "trap" THEN FirstNaNCell(width, height)
                     ELSE NComp} :
          /\ out_char' =
                [i \in CompIdx |->
                    IF CompositeWrites(width, height, stop, i)
                    THEN CompositeCell(i \div width, i % width,
                                       PixelAt(i)).char
                    ELSE out_char[i]]
          /\ out_fg' =
                [i \in CompIdx |->
                    IF CompositeWrites(width, height, stop, i)
                    THEN CompositeCell(i \div width, i % width, PixelAt(i)).fg
                    ELSE out_fg[i]]
          /\ fault' = IF stop < NComp THEN fault \cup {"float_to_int"}
                      ELSE fault
    /\ UNCHANGED << tableVars, sceneVars, group_count, simdVars, rayVars,
                    ray_count, camVars, bg_color, out_rgb, perf_metrics,
                    marchVars, passes, prev_out, same_inputs, out_bg,
                    upscaled_char, upscaled_fg >>

\* ------------------------------------------------------------------------
\* Block compositor: one cell for two vertically adjacent pixels
\* ------------------------------------------------------------------------
\* bot_row = top_row + 1; if (bot_row >= height) bot_row = top_row
BotRow(out_row, height) ==
    IF 2 * out_row + 1 >= height THEN 2 * out_row ELSE 2 * out_row + 1

TopIdx(width, out_row, col) == 2 * out_row * width + col
BotIdx(width, height, out_row, col) == BotRow(out_row, height) * width + col

\* top_bright > BG_THRESHOLD
PixelOn(px) == FGt(MeanBrightness(px), BG_THRESHOLD)

\* (top + bot) * 0.5f
HalfSum(a, b) == FMul(FAdd(a, b), Scale \div 2)

\* a both-dark cell filled as the single-glyph mode fills it
BlockCell_fallback(t, b) ==
    [char |-> 32, fg |-> Rgba(BG_FILL_R, BG_FILL_G, BG_FILL_B),
     bg |-> Rgba(BG_FILL_R, BG_FILL_G, BG_FILL_B)]

\* the character, foreground and background of a cell with top pixel t and
\* bottom pixel b
BlockCell(t, b) ==
    IF PixelOn(t) /\ PixelOn(b)
    THEN [char |-> BLOCK_FULL,
          fg |-> Rgba(HalfSum(t[1], b[1]), HalfSum(t[2], b[2]),
                      HalfSum(t[3], b[3])),
          bg |-> Rgba(HalfSum(t[1], b[1]), HalfSum(t[2], b[2]),
                      HalfSum(t[3], b[3]))]
    ELSE IF PixelOn(t)
    THEN [char |-> BLOCK_UPPER, fg |-> Rgba(t[1], t[2], t[3]),
          bg |-> Rgba(b[1], b[2], b[3])]
    ELSE IF PixelOn(b)
    THEN [char |-> BLOCK_LOWER, fg |-> Rgba(b[1], b[2], b[3]),
          bg |-> Rgba(t[1], t[2], t[3])]
    ELSE [char |-> 32, fg |-> Rgba(bg_color[1], bg_color[2], bg_color[3]),
          bg |-> Rgba(bg_color[1], bg_color[2], bg_color[3])]

\* the loops of composite_blocks reach output cell o
BlocksVisits(width, height, o) == width > 0 /\ o \div width < height \div 2

\* the cell composite_blocks computes for output cell o
BlocksCellAt(width, height, o) ==
    BlockCell(PixelAt(TopIdx(width, o \div width, o % width)),
              PixelAt(BotIdx(width, height, o \div width, o % width)))

\* the last column the inner loop reaches in a row whose first cell has
\* index first: the loop ends at the width or at the break on MAX_RAYS (-1
\* if it reaches none)
LastCol(first, width) ==
    IF first + width <= MAX_RAYS THEN width - 1 ELSE MAX_RAYS - 1 - first

\* some iteration of the loops reads out_r/out_g/out_b at or past MAX_RAYS;
\* within a row the indices grow with the column, so the last column
\* reached decides
BlocksReadsOutside(width, height) ==
    \E out_row \in 0 .. (height \div 2 - 1) :
        /\ LastCol(out_row * width, width) >= 0
        /\ BotIdx(width, height, out_row, LastCol(out_row * width, width))
              >= MAX_RAYS

composite_blocks(width, height) ==
    /\ pc = "idle"
    /\ out_char' = [o \in CompIdx |->
                      IF BlocksVisits(width, height, o)
                      THEN BlocksCellAt(width, height, o).char
                      ELSE out_char[o]]
    /\ out_fg' = [o \in CompIdx |->
                    IF BlocksVisits(width, height, o)
                    THEN BlocksCellAt(width, height, o).fg ELSE out_fg[o]]
    /\ out_bg' = [o \in CompIdx |->
                    IF BlocksVisits(width, height, o)
                    THEN BlocksCellAt(width, height, o).bg ELSE out_bg[o]]
    /\ fault' = IF BlocksReadsOutside(width, height)
                THEN fault \cup {"out_of_bounds"} ELSE fault
    /\ UNCHANGED << tableVars, sceneVars, group_count, simdVars, rayVars,
                    ray_count, camVars, bg_color, out_rgb, perf_metrics,
                    marchVars, passes, prev_out, same_inputs, upscaled_char,
                    upscaled_fg >>

\* ------------------------------------------------------------------------
\* Nearest-neighbour upscale of out_char/out_fg
\* ------------------------------------------------------------------------
\* an index of at least 2^32 - 2^15, which a 0 - 1 in u32 leads to
WrappedIdx == 2147483647

\* native_row = out_row / scale; if (native_row >= native_height)
\* native_row = native_height - 1 (and the same for the column);
\* native_idx = native_row * native_width + native_col. The dimensions are
\* below 2^15; with native_height = 0 the row is 2^32 - 1 and the index
\* 2^32 - native_width + native_col, with native_width = 0 the column and
\* the index are 2^32 - 1
NativeCoord_unclamped(o, scale, n) == o \div scale

NativeCoord(o, scale, n) == IF o \div scale >= n THEN n - 1 ELSE o \div scale

NativeIdx(nw, nh, out_row, out_col, scale) ==
    IF nw = 0 \/ nh = 0 THEN WrappedIdx
    ELSE NativeCoord(out_row, scale, nh) * nw + NativeCoord(out_col, scale, nw)

\* the loops of upscale reach output cell o
UpscaleVisits(ow, oh, o) == ow > 0 /\ o \div ow < oh

\* out_row / scale with scale = 0, evaluated for the first row
UpscaleTraps(oh, scale) == oh > 0 /\ scale = 0

\* some iteration reads out_char/out_fg at or past MAX_RAYS; within a row
\* native_idx does not decrease with the column, so the last column reached
\* decides
UpscaleReadsOutside(nw, nh, ow, oh, scale) ==
    \E out_row \in 0 .. (oh - 1) :
        /\ LastCol(out_row * ow, ow) >= 0
        /\ NativeIdx(nw, nh, out_row, LastCol(out_row * ow, ow), scale)
              >= MAX_RAYS

\* what a read of out_char/out_fg finds in a cell that is not kept or is
\* outside the buffer: one of these, the same for every such read of a call
UnkeptCells == {[char |-> 0, fg |-> Zero4],
                [char |-> 64, fg |-> Rgba(BG_FILL_R, BG_FILL_G, BG_FILL_B)]}

NativeCell(n, unkept) ==
    IF n < NComp THEN [char |-> out_char[n], fg |-> out_fg[n]] ELSE unkept

UpscaledCell(nw, nh, ow, scale, o, unkept) ==
    NativeCell(NativeIdx(nw, nh, o \div ow, o % ow, scale), unkept)

upscale(nw, nh, ow, oh, scale) ==
    /\ pc = "idle"
    /\ IF UpscaleTraps(oh, scale)
       THEN /\ fault' = fault \cup {"div_by_zero"}
            /\ UNCHANGED << upscaled_char, upscaled_fg >>
       ELSE /\ \E unkept \in UnkeptCells :
                /\ upscaled_char' =
                      [o \in CompIdx |->
                          IF UpscaleVisits(ow, oh, o)
                          THEN UpscaledCell(nw, nh, ow, scale, o, unkept).char
                          ELSE upscaled_char[o]]
                /\ upscaled_fg' =
                      [o \in CompIdx |->
                          IF UpscaleVisits(ow, oh, o)
                          THEN UpscaledCell(nw, nh, ow, scale, o, unkept).fg
                          ELSE upscaled_fg[o]]
            /\ fault' = IF UpscaleReadsOutside(nw, nh, ow, oh, scale)
                        THEN fault \cup {"out_of_bounds"} ELSE fault
    /\ UNCHANGED << tableVars, sceneVars, group_count, simdVars, rayVars,
                    ray_count, camVars, bg_color, out_rgb, perf_metrics,
                    marchVars, passes, prev_out, same_inputs, out_char,
                    out_fg, out_bg >>

\* ------------------------------------------------------------------------
\* The compositing passes on pixels the host leaves in out_r/out_g/out_b
\* (get_out_r_ptr and its siblings hand the buffers to the host)
\* ------------------------------------------------------------------------
\* black, the threshold itself, a dark mean with one channel above the
\* threshold, white, a coloured pixel, a pixel with a NaN channel
Palette == << Zero3,
              << BG_THRESHOLD, BG_THRESHOLD, BG_THRESHOLD >>,
              << BG_FILL_R, BG_FILL_G, BG_FILL_B >>,
              << Scale, Scale, Scale >>,
              << Scale \div 2, Scale \div 5, 0 >>,
              << NaN, Scale, 0 >> >>

\* the palette laid over the cells from its k-th colour on
PixelImage(k) == [i \in CellIdx |-> Palette[((i + k) % Len(Palette)) + 1]]
PixelImages == {PixelImage(k) : k \in 0 .. (Len(Palette) - 1)}

HostWritePixels(img) ==
    /\ pc = "idle"
    /\ out_rgb' = img
    /\ UNCHANGED << tableVars, sceneVars, group_count, simdVars, rayVars,
                    ray_count, camVars, bg_color, perf_metrics, marchVars,
                    passes, prev_out, same_inputs, compVars >>

\* width and height of the composited image: inside the kept cells, empty,
\* at the capacity, and with more than MAX_RAYS pixels
CompDims == {<< 2, 2 >>, << 1, 4 >>, << 4, 4 >>, << 3, 2 >>, << 0, 3 >>,
             << 3, 0 >>, << 128, 128 >>, << 128, 256 >>}

\* native width and height, output width and height, scale
UpscaleInputs == {<< 2, 2, 4, 4, 2 >>, << 2, 2, 3, 3, 1 >>,
                  << 4, 2, 2, 4, 1 >>, << 1, 1, 2, 2, 0 >>,
                  << 2, 2, 2, 0, 0 >>, << 2, 0, 2, 2, 1 >>,
                  << 200, 200, 128, 128, 1 >>}

\* the host renders one frame: it leaves the pixels, composites them in
\* one of the two modes, then upscales the result
Uncomposited == out_char = [i \in CompIdx |-> 0]
Unscaled == upscaled_char = [i \in CompIdx |-> 0]

LeavePixels ==
    Uncomposited /\ Unscaled /\ \E img \in PixelImages : HostWritePixels(img)

CompositeFrame ==
    Uncomposited /\ Unscaled /\ \E d \in CompDims : composite(d[1], d[2])

CompositeBlocksFrame ==
    /\ Uncomposited /\ Unscaled
    /\ \E d \in CompDims : composite_blocks(d[1], d[2])

UpscaleFrame ==
    Unscaled /\ \E u \in UpscaleInputs : upscale(u[1], u[2], u[3], u[4], u[5])

CompNext ==
    \/ LeavePixels
    \/ HostWriteBg
    \/ CompositeFrame
    \/ CompositeBlocksFrame
    \/ UpscaleFrame

CompSpec == Init /\ [][CompNext]_vars

\* ------------------------------------------------------------------------
\* Properties of the marching loop
\* ------------------------------------------------------------------------
\* the state of a lane as the batch reports it
LaneStatus(act, acc) ==
    IF act THEN "Marching" ELSE IF acc THEN "Hit" ELSE "Miss"

\* C1: a lane that has left Marching at an earlier step of the batch stays
\* inactive, and every later step leaves its position and its travelled
\* distance as they were, whatever the other lanes do.
LeftLaneIsFrozen ==
    [][pc = "step" =>
         \A l \in Lanes :
            ~active[l] =>
               /\ ~active'[l]
               /\ pos'[l] = pos[l]
               /\ total_dist'[l] = total_dist[l]]_vars

\* a lane with a real direction hit, and the loop went on for other lanes
FrozenLaneOutlivedSteps ==
    /\ pc = "shade"
    /\ \E l \in Lanes :
          /\ hit_step[l] # 0
          /\ hit_step[l] < steps_this_batch
          /\ dir[l] # Zero3
          /\ \A c \in 1 .. 3 : dir[l][c] # NaN /\ pos[l][c] # NaN

\* C2: at the end of a batch a lane in range gets the shaded colour and is
\* counted as a hit exactly when its hit test held at some step of the
\* batch; otherwise it gets the background.  A lane whose miss test held
\* first never has its hit test hold at a later step.
HitReportedIffHitTestHeld ==
    [][pc = "shade" =>
         \A bright \in {BrightArr}, hc \in {HitColors} :
            /\ \A l \in Lanes :
                  LaneInRange(batch, l) =>
                     out_rgb'[batch * 4 + l] =
                        IF hit_step[l] # 0
                        THEN ShadeColor(bright[l], hc.colors[l])
                        ELSE bg_color
            /\ total_hits' = total_hits + Cardinality(
                  {l \in Lanes : LaneInRange(batch, l) /\ hit_step[l] # 0})
            /\ \A l \in Lanes :
                  (hit_step[l] # 0 /\ miss_step[l] # 0) =>
                     hit_step[l] <= miss_step[l]]_vars

\* a lane in range hit before the last step of its batch
EarlyHitKept ==
    /\ pc = "shade"
    /\ \E l \in Lanes :
          /\ LaneInRange(batch, l)
          /\ accumulated_hit[l]
          /\ hit_step[l] # 0
          /\ hit_step[l] < steps_this_batch

\* C3 (as stated): a Marching lane becomes Miss exactly when the distance
\* accumulated before the step exceeds 100.0, becomes Hit exactly when the
\* evaluated distance is below 0.001, and otherwise advances by the
\* evaluated distance.
StepRuleAsStated ==
    [][pc = "step" =>
         \A l \in Lanes :
            active[l] =>
               /\ (LaneStatus(active'[l], accumulated_hit'[l]) = "Miss")
                     <=> MissTest(total_dist[l])
               /\ (LaneStatus(active'[l], accumulated_hit'[l]) = "Hit")
                     <=> HitTest(dist'[l])
               /\ (~MissTest(total_dist[l]) /\ ~HitTest(dist'[l])) =>
                     /\ active'[l]
                     /\ pos'[l] = VAdd(pos[l], VScale(dir[l], dist'[l]))
                     /\ total_dist'[l] = FAdd(total_dist[l], dist'[l])]_vars

\* C3 (amended): the hit test takes precedence: a Marching lane becomes
\* Hit exactly when the evaluated distance is below 0.001, becomes Miss
\* exactly when the distance accumulated before the step exceeds 100.0 and
\* the evaluated distance is not below 0.001, and otherwise advances by the
\* evaluated distance.
StepRuleHitFirst ==
    [][pc = "step" =>
         \A l \in Lanes :
            active[l] =>
               /\ (LaneStatus(active'[l], accumulated_hit'[l]) = "Miss")
                     <=> (MissTest(total_dist[l]) /\ ~HitTest(dist'[l]))
               /\ (LaneStatus(active'[l], accumulated_hit'[l]) = "Hit")
                     <=> HitTest(dist'[l])
               /\ (~MissTest(total_dist[l]) /\ ~HitTest(dist'[l])) =>
                     /\ active'[l]
                     /\ pos'[l] = VAdd(pos[l], VScale(dir[l], dist'[l]))
                     /\ total_dist'[l] = FAdd(total_dist[l], dist'[l])]_vars

\* a lane whose hit test and miss test first held at the same step
HitAndMissTogether ==
    \E l \in Lanes :
       /\ hit_step[l] # 0
       /\ hit_step[l] = miss_step[l]
       /\ accumulated_hit[l]

\* how far a running pass has got: batches done, then the place in the
\* current batch
MarchProgress ==
    batch * (MAX_STEPS + 2)
    + (CASE pc = "step" -> 1 + steps_this_batch
         [] pc = "shade" -> MAX_STEPS + 1
         [] OTHER -> 0)

\* C4: a batch evaluates the scene distance between 1 and 64 times: each
\* step counts one evaluation, the loop leaves exactly when no lane is
\* active after the step or the 64th step has run.  A pass that has
\* started always returns: every step it takes either returns or moves it
\* forward on a scale bounded by the number of batches.
StepBudgetAndTermination ==
    [][pc # "idle" =>
         /\ pc \in {"batch", "step", "shade"}
         /\ pc' = "idle" \/ MarchProgress' > MarchProgress
         /\ MarchProgress' <= batch_count * (MAX_STEPS + 2)
         /\ pc = "step" =>
               /\ steps_this_batch' = steps_this_batch + 1
               /\ steps_this_batch' \in 1 .. MAX_STEPS
               /\ pc' \in {"step", "shade"}
               /\ (pc' = "shade") <=>
                     ((\A l \in Lanes : ~active'[l])
                      \/ steps_this_batch' = MAX_STEPS)
         /\ pc = "shade" => pc' = "batch"]_vars

\* a batch that used the whole budget with a lane still Marching
BudgetExhausted ==
    /\ pc = "shade"
    /\ steps_this_batch = MAX_STEPS
    /\ \E l \in Lanes : active[l]

\* C5 (as stated): with zero shapes every scene distance the march
\* evaluates is MAX_DIST, also when march_rays runs before any set_scene.
ZeroShapesGiveMaxDist ==
    (shape_count = 0 /\ pc \in {"step", "shade"} /\ steps_this_batch > 0) =>
       \A l \in Lanes : dist[l] = MAX_DIST

\* ------------------------------------------------------------------------
\* Properties of the counts
\* ------------------------------------------------------------------------
\* width * height > cap, without forming the product
PixelsExceed(width, height, cap) == height > 0 /\ width > cap \div height

\* C6 (as stated): the three counts stay within capacity, and a call that
\* asks for more than the capacity sets the count to exactly the capacity.
CountsClampToCapacity ==
    [][/\ ray_count' <= MAX_RAYS
       /\ shape_count' <= MAX_SHAPES
       /\ group_count' <= MAX_GROUPS
       /\ \A c \in CapCounts(MAX_RAYS) :
             (c > MAX_RAYS /\ set_ray_count(c)) => ray_count' = MAX_RAYS
       /\ \A c \in CapCounts(MAX_GROUPS) :
             (c > MAX_GROUPS /\ set_groups(c)) => group_count' = MAX_GROUPS
       /\ \A c \in CapCounts(MAX_SHAPES), k \in KInputs :
             (c > MAX_SHAPES /\ set_scene(c, k)) => shape_count' = MAX_SHAPES
       /\ \A d \in CapDims :
             (PixelsExceed(d[1], d[2], MAX_RAYS) /\ generate_rays(d[1], d[2]))
                => ray_count' = MAX_RAYS]_vars

\* ------------------------------------------------------------------------
\* Properties of the scene distance
\* ------------------------------------------------------------------------
\* query points: the origin, the centre of the far sphere, and points on
\* and between the box and the cylinder
ProbePoints ==
    {Zero3, V3(0, 0, 1500), V3(30, 10, 50), V3(30, 12, 45), V3(15, 0, 50)}

\* C7 (as stated): for every group_count, a committed scene whose only
\* shape has a group id that is not below group_count has that shape's own
\* distance as its scene distance.
OutOfRangeGroupIsGroupZero ==
    (shape_count = 1 /\ GroupAt(0) >= group_count) =>
       \A q \in ProbePoints : scene_sdf_simd(q) = eval_shape_simd(0, q)

\* the shapes of group g, in shape-table order
RECURSIVE MembersFrom(_, _)
MembersFrom(i, g) ==
    IF i >= shape_count THEN << >>
    ELSE IF ShapeGroup(i) = g THEN << i >> \o MembersFrom(i + 1, g)
         ELSE MembersFrom(i + 1, g)

\* the distance of a group: its first shape folded with its later shapes
\* by min or by smooth union
RECURSIVE FoldGroup(_, _, _, _)
FoldGroup(acc, members, g, q) ==
    IF members = << >> THEN acc
    ELSE FoldGroup(IF group_blend_mode[g] = 0
                   THEN FMin(acc, eval_shape_simd(Head(members), q))
                   ELSE sdf_smooth_union_simd(
                            acc, eval_shape_simd(Head(members), q),
                            smooth_k_simd),
                   Tail(members), g, q)

GroupDistance(g, q) ==
    FoldGroup(eval_shape_simd(Head(MembersFrom(0, g)), q),
              Tail(MembersFrom(0, g)), g, q)

\* the touched groups in ascending order
RECURSIVE TouchedFrom(_)
TouchedFrom(g) ==
    IF g >= MAX_GROUPS THEN << >>
    ELSE IF MembersFrom(0, g) # << >> THEN << g >> \o TouchedFrom(g + 1)
         ELSE TouchedFrom(g + 1)

RECURSIVE FoldScene(_, _, _)
FoldScene(acc, groups, q) ==
    IF groups = << >> THEN acc
    ELSE FoldScene(sdf_smooth_union_simd(acc, GroupDistance(Head(groups), q),
                                         smooth_k_simd),
                   Tail(groups), q)

TwoPassReduction(q) ==
    FoldScene(GroupDistance(Head(TouchedFrom(0)), q), Tail(TouchedFrom(0)), q)

\* C8: with at least one shape and one group every scene distance the
\* march evaluates is the two-pass reduction at the lane's position: each
\* touched group folds its shapes in table order by min (blend mode 0) or
\* smooth union, and the groups are folded by smooth union in ascending
\* order, seeded by the first touched group.
SceneIsTwoPassReduction ==
    [][(pc = "step" /\ shape_count >= 1 /\ group_count >= 1) =>
         \A l \in Lanes : dist'[l] = TwoPassReduction(pos[l])]_vars

\* a lane stopped on the blended surface of the whole written table: the
\* distance evaluated where it stands is a hit, and lower than the
\* distance of every single shape
BlendedSurfaceHit ==
    /\ pc = "shade"
    /\ shape_count = NShapes
    /\ group_count >= 1
    /\ shape_c[1] # Zero3
    /\ \E l \in Lanes :
          /\ accumulated_hit[l]
          /\ \A c \in 1 .. 3 : pos[l][c] # NaN
          /\ \A i \in 0 .. (shape_count - 1) :
                FLt(dist[l], eval_shape_simd(i, pos[l]))

\* ------------------------------------------------------------------------
\* Properties of the output
\* ------------------------------------------------------------------------
\* C9: at the end of a batch every lane in range that did not hit gets
\* exactly bg_color, and a batch without any hit leaves the normal and the
\* colour-lookup counters as they were.
MissGetsBackground ==
    [][pc = "shade" =>
         /\ \A l \in Lanes :
               (LaneInRange(batch, l) /\ ~accumulated_hit[l]) =>
                  out_rgb'[batch * 4 + l] = bg_color
         /\ (\A l \in Lanes : ~accumulated_hit[l]) =>
               /\ perf_metrics'[PERF_NORMAL_SDF_CALLS] =
                     perf_metrics[PERF_NORMAL_SDF_CALLS]
               /\ perf_metrics'[PERF_COLOR_LOOKUPS] =
                     perf_metrics[PERF_COLOR_LOOKUPS]]_vars

\* the first batch of a pass ended without a hit and wrote the host's
\* background colour
MissBatchWritten ==
    /\ pc = "batch"
    /\ batch = 1
    /\ total_hits = 0
    /\ total_misses > 0
    /\ bg_color = HostBg
    /\ out_rgb[0] = HostBg
    /\ perf_metrics[PERF_TOTAL_SDF_CALLS] > 0
    /\ perf_metrics[PERF_NORMAL_SDF_CALLS] = 0

\* C10: a pass over the same tables, committed scene, camera, background
\* and rays as the pass before it has written the same output, whatever
\* the metrics held when it started.
RepeatedPassSameOutput ==
    (pc = "batch" /\ batch >= batch_count /\ same_inputs) =>
       OutPrefix = prev_out

\* a second pass with a shaded hit that started from the metrics the
\* first pass left
SecondPassOnUsedMetrics ==
    /\ pc = "batch"
    /\ batch >= batch_count
    /\ same_inputs
    /\ passes = 2
    /\ total_hits > 0
    /\ \E i \in 0 .. (ray_count - 1) :
          out_rgb[i] # bg_color /\ out_rgb[i][1] # NaN /\ out_rgb[i] # Zero3
    /\ perf_metrics[PERF_TOTAL_SDF_CALLS] > F32(total_steps_all)

\* ------------------------------------------------------------------------
\* Properties of the compositing passes
\* ------------------------------------------------------------------------
\* every channel is a number at or below the threshold
AllChannelsDark(px) == \A c \in 1 .. 3 : px[c] # NaN /\ px[c] <= BG_THRESHOLD

\* the call trapped on the conversion of a NaN before it reached cell i
TrappedBefore(i) ==
    /\ "float_to_int" \in fault'
    /\ out_char'[i] = out_char[i]
    /\ out_fg'[i] = out_fg[i]

\* C11: in every composite call, each cell of the width x height image
\* whose pixel has R, G and B at or below 0.04 gets '@' with foreground
\* (0.03, 0.05, 0.04, 1.0), at every row and column and for every
\* background colour (unless the call trapped before reaching the cell)
DarkPixelGetsFill ==
    [][\A d \in CompDims :
          composite(d[1], d[2]) =>
              \A i \in CompIdx :
                  (i < d[1] * d[2] /\ AllChannelsDark(PixelAt(i))) =>
                      \/ /\ out_char'[i] = 64
                         /\ out_fg'[i] = << 3 * (Scale \div 100),
                                            5 * (Scale \div 100),
                                            4 * (Scale \div 100), Scale >>
                      \/ TrappedBefore(i)]_vars

\* a composited image with the background colour set holds a pixel at the
\* threshold itself, filled, next to a white pixel that kept its colour
DarkPixelsFilled ==
    /\ bg_color # Zero3
    /\ \E i, j \in CompIdx :
          /\ PixelAt(i) = << 4 * (Scale \div 100), 4 * (Scale \div 100),
                             4 * (Scale \div 100) >>
          /\ out_char[i] = 64
          /\ out_fg[i] = << 3 * (Scale \div 100), 5 * (Scale \div 100),
                            4 * (Scale \div 100), Scale >>
          /\ PixelAt(j) = << Scale, Scale, Scale >>
          /\ out_fg[j] = << Scale, Scale, Scale, Scale >>

White == << Scale, Scale, Scale >>

MeanNotAbove(px) ==
    /\ \A c \in 1 .. 3 : px[c] # NaN
    /\ px[1] + px[2] + px[3] <= 3 * BG_THRESHOLD

\* C13: in every composite_blocks call, each output cell whose top and
\* bottom source pixels both have mean brightness not above 0.04 gets a
\* space with foreground and background equal to the current bg_color with
\* alpha 1.0
BothDarkGetsBackground ==
    [][\A d \in CompDims :
          composite_blocks(d[1], d[2]) =>
              \A o \in CompIdx :
                  (/\ d[1] > 0
                   /\ o < d[1] * (d[2] \div 2)
                   /\ MeanNotAbove(PixelAt(2 * (o \div d[1]) * d[1]
                                              + (o % d[1])))
                   /\ MeanNotAbove(PixelAt((2 * (o \div d[1]) + 1) * d[1]
                                              + (o % d[1])))) =>
                      /\ out_char'[o] = 32
                      /\ out_fg'[o] = << bg_color[1], bg_color[2],
                                         bg_color[3], Scale >>
                      /\ out_bg'[o] = out_fg'[o]]_vars

\* a block-composited frame with a non-black scene background holds a
\* both-dark cell over non-black pixels next to a lit cell
BothDarkCellWritten ==
    /\ bg_color # Zero3
    /\ bg_color # << BG_FILL_R, BG_FILL_G, BG_FILL_B >>
    /\ PixelAt(0) # Zero3 /\ MeanNotAbove(PixelAt(0))
    /\ PixelAt(1) # Zero3 /\ MeanNotAbove(PixelAt(1))
    /\ out_char[0] = 32
    /\ out_fg[0] = << bg_color[1], bg_color[2], bg_color[3], Scale >>
    /\ out_bg[0] = out_fg[0]
    /\ \E o \in CompIdx : out_char[o] \in {BLOCK_FULL, BLOCK_UPPER, BLOCK_LOWER}

Min(a, b) == IF a < b THEN a ELSE b

\* C14: in every upscale call with scale >= 1 and native dimensions >= 1,
\* each output cell (out_row, out_col) takes the character and the RGBA
\* foreground of the native cell (min(out_row / scale, native_height - 1),
\* min(out_col / scale, native_width - 1)) of out_char/out_fg, and
\* out_char, out_fg and out_bg are left as they were
UpscaleCopiesNearestNative ==
    [][\A u \in UpscaleInputs :
          (upscale(u[1], u[2], u[3], u[4], u[5])
              /\ u[5] >= 1 /\ u[1] >= 1 /\ u[2] >= 1) =>
              /\ \A o \in CompIdx :
                    o < u[3] * u[4] =>
                        \A n \in {Min((o \div u[3]) \div u[5], u[2] - 1) * u[1]
                                  + Min((o % u[3]) \div u[5], u[1] - 1)} :
                            n < NComp =>
                                /\ upscaled_char'[o] = out_char[n]
                                /\ upscaled_fg'[o] = out_fg[n]
              /\ UNCHANGED << out_char, out_fg, out_bg >>]_vars

\* a composited 2x2 image upscaled by 2 to 4x4: output cells (0,0)..(1,1)
\* hold native (0,0) and output cell (3,3) holds native (1,1)
UpscaledTwoByTwo ==
    /\ out_char[0] # 0 /\ out_char[3] # 0 /\ out_char[4] = 0
    /\ out_char[0] # out_char[3]
    /\ \A o \in {0, 1, 4, 5} :
          upscaled_char[o] = out_char[0] /\ upscaled_fg[o] = out_fg[0]
    /\ upscaled_char[15] = out_char[3] /\ upscaled_fg[15] = out_fg[3]
    /\ upscaled_char[2] = out_char[1] /\ upscaled_char[8] = out_char[2]

\* C15: every pass trigger completes for all its arguments, 0 included: no
\* call ends in a trap
EveryPassCompletes == fault \cap {"div_by_zero", "float_to_int"} = {}

\* C20: every cell index the compositing passes and the upscaler use is
\* below the 16384-cell capacity of the buffers
CompositingIndicesInCapacity == "out_of_bounds" \notin fault

\* ------------------------------------------------------------------------
\* Properties of the metrics
\* ------------------------------------------------------------------------
\* C16: between two resets every count metric holds the sum of its
\* per-batch increments over all passes since the reset, so whenever no
\* pass is running the total-steps counter equals the scene-SDF-call
\* counter
TotalStepsEqualSdfCalls ==
    pc = "idle" =>
        perf_metrics[PERF_TOTAL_STEPS] = perf_metrics[PERF_TOTAL_SDF_CALLS]

\* ------------------------------------------------------------------------
\* One ray on its own: the march and the colour lookup without a batch
\* ------------------------------------------------------------------------
RECURSIVE LoneMarch(_, _, _, _)
LoneStep(p, d, total, step, sd) ==
    IF FLt(sd, HIT_THRESHOLD) THEN [hit |-> TRUE, pos |-> p]
    ELSE IF FGt(total, MAX_DIST) THEN [hit |-> FALSE, pos |-> p]
    ELSE LoneMarch(VAdd(p, VScale(d, sd)), d, FAdd(total, sd), step + 1)

\* the state in which a ray at p with direction d leaves the march, having
\* taken step steps over the distance total
LoneMarch(p, d, total, step) ==
    IF step >= MAX_STEPS THEN [hit |-> FALSE, pos |-> p]
    ELSE LoneStep(p, d, total, step, scene_sdf_simd(p))

\* the colour of the shape the scan of the table settles on for point p:
\* md is the running minimum, col the colour kept so far
RECURSIVE LoneScan(_, _, _, _)
LoneScanAt(i, p, md, col, d) ==
    IF ~FLt(d, md) THEN LoneScan(i + 1, p, md, col)
    ELSE IF FLt(d, HIT_THRESHOLD) THEN RgbAt(i)
    ELSE LoneScan(i + 1, p, d, RgbAt(i))

LoneScan(i, p, md, col) ==
    IF i >= shape_count THEN col
    ELSE LoneScanAt(i, p, md, col, eval_shape_simd(i, p))

LoneColorAt(m) ==
    IF m.hit
    THEN ShadeColor(Brightness(m.pos), LoneScan(0, m.pos, MAX_DIST, Zero3))
    ELSE bg_color

\* C17: the batch reports for each of its rays the outcome, the frozen
\* position and the output colour the ray has on its own, whatever the
\* other three lanes hold
LaneOutcomeIsTheRaysOwn ==
    [][ShadeBatch =>
          \A l \in Lanes :
              LaneInRange(batch, l) =>
                  \A m \in {LoneMarch(ray_o[batch * 4 + l],
                                      ray_d[batch * 4 + l], 0, 0)} :
                      /\ accumulated_hit[l] = m.hit
                      /\ pos[l] = m.pos
                      /\ out_rgb'[batch * 4 + l] = LoneColorAt(m)]_vars

\* the number of shapes scanned for point p until the scan settles
RECURSIVE LoneScanLen(_, _, _)
LoneScanLenAt(i, p, md, d) ==
    IF ~FLt(d, md) THEN LoneScanLen(i + 1, p, md)
    ELSE IF FLt(d, HIT_THRESHOLD) THEN i + 1
    ELSE LoneScanLen(i + 1, p, d)

LoneScanLen(i, p, md) ==
    IF i >= shape_count THEN i
    ELSE LoneScanLenAt(i, p, md, eval_shape_simd(i, p))

\* the longest scan among the hit lanes
BatchScanLen(p, hit) ==
    CHOOSE n \in 0 .. shape_count :
        /\ \A l \in Lanes : hit[l] => LoneScanLen(0, p[l], MAX_DIST) <= n
        /\ \E l \in Lanes : hit[l] /\ LoneScanLen(0, p[l], MAX_DIST) = n

\* C18: for a batch with a hit, the colour lookup gives each hit lane the
\* colour of the scan in table order with a running minimum that starts at
\* 100.0, changes only on a strictly closer shape and settles on a shape
\* closer than 0.001; it leaves the other lanes at zero, and it scans as
\* many shapes as the slowest hit lane needs
ColorLookupIsOrderedScan ==
    (pc = "shade" /\ \E l \in Lanes : accumulated_hit[l]) =>
        \A hc \in {get_hit_colors_simd(pos, accumulated_hit)} :
            /\ \A l \in Lanes :
                  hc.colors[l] =
                      IF accumulated_hit[l]
                      THEN LoneScan(0, pos[l], MAX_DIST, Zero3)
                      ELSE Zero3
            /\ hc.lookups = BatchScanLen(pos, accumulated_hit)

\* a batch of a three-shape scene in which one hit lane settles on the
\* second shape, another hit lane scans the whole table, and a lane missed
ScanSettlesEarlyAndLate ==
    /\ pc = "shade"
    /\ shape_count = 3
    /\ \E l, m, k \in Lanes :
          /\ accumulated_hit[l] /\ LoneScanLen(0, pos[l], MAX_DIST) = 2
          /\ LoneScan(0, pos[l], MAX_DIST, Zero3) # Zero3
          /\ accumulated_hit[m] /\ LoneScanLen(0, pos[m], MAX_DIST) = 3
          /\ ~accumulated_hit[k]

\* set_scene committed every shape of the table while the tables still
\* held the zeros of static storage: spheres of radius 0 at the origin, all
\* in group 0, which takes the hard union
CommittedFromZeroTables ==
    /\ shape_count = NShapes
    /\ group_count >= 1
    /\ \A i \in ShapeIdx : shape_c[i] = Zero3 /\ shape_p[i] = Zero3

\* C19: the scene distance depends on the committed scene only, so as long
\* as the scene committed from the zero tables is not committed again, the
\* scene distance of a point stays its distance from the origin, whatever
\* the host writes to the shape tables and the blend-mode table
TableWriteKeepsSceneDistance ==
    CommittedFromZeroTables =>
        \A q \in ProbePoints : scene_sdf_simd(q) = Len3(q[1], q[2], q[3])

\* ------------------------------------------------------------------------
\* Properties of a whole pass
\* ------------------------------------------------------------------------
\* the batch loop of march_rays has ended; "Finalize metrics" is next
PassEnds == pc = "batch" /\ batch >= batch_count

\* the indices whose one logged branch was the hit branch (want) or the
\* miss branch
LoggedAs(want) ==
    {i \in CellIdx : Len(lane_log[i]) = 1 /\ lane_log[i][1].hit = want}

\* 100 * hits / ray_count, 0 when ray_count is 0
HitRateOf(hits, rays) ==
    IF rays > 0 THEN FDiv(F32(100 * hits), F32(rays)) ELSE 0

=============================================================================
